---- MODULE Spec2Model ----
(***************************************************************************)
(* Model of Cpp_minidemo/Solar_System/main.cpp: the Planet struct and the  *)
(* control flow of main (startup, the frame loop, teardown).               *)
(*                                                                         *)
(* Numbers.  The program's doubles are modelled as fixed-point integers:   *)
(*   angle, orbitSpeed : units of 1/AngleUnit radian                       *)
(*   orbitRadius       : units of 1/RadUnit pixel                          *)
(*   cos, sin          : units of 1/TrigUnit                               *)
(* so orbitRadius * cos(angle) is in units of 1/(RadUnit*TrigUnit) pixel.  *)
(* Addition of angles is exact in this representation (the rounding of     *)
(* IEEE double addition is not modelled).                                  *)
(***************************************************************************)
EXTENDS Integers, Sequences, FiniteSets, TLC

\* ------------------------------------------------------------------ bounds
MaxFrames == 3      \* loop iterations explored
MaxEvents == 3      \* input events the environment posts in one run
MaxProbe  == 2      \* successive updates applied to one probed planet

\* --------------------------------------------------------------- constants
SCREEN_WIDTH  == 1920
SCREEN_HEIGHT == 1080
AngleUnit == 100000
RadUnit   == 10
TrigUnit  == 1000
PosUnit   == RadUnit * TrigUnit
NumTextures == 10
NumPlanets  == 8

\* ------------------------------------------------------------- arithmetic
\* C++ integer division and double -> int conversion both round toward zero.
TruncDiv(n, d) == IF n >= 0 THEN n \div d ELSE -((-n) \div d)

\* static_cast<int>(v) for v a fixed-point value in units of 1/PosUnit.
ToInt(v) == TruncDiv(v, PosUnit)

\* cos on [0, pi/2], argument in milliradians, result in 1/TrigUnit:
\* 1 - x^2/2! + x^4/4! - x^6/6! + x^8/8!
CosQ(x) ==
    LET x2 == (x * x) \div 1000
        x4 == (x2 * x2) \div 1000
        x6 == (x4 * x2) \div 1000
        x8 == (x6 * x2) \div 1000
    IN  TrigUnit - (x2 \div 2) + (x4 \div 24) - (x6 \div 720) + (x8 \div 40320)

\* cos of an angle in 1/AngleUnit radian (any sign, any magnitude): the
\* argument is reduced modulo 2*pi, as the library function does.
Cos(a) ==
    LET x == (a % 628319) \div 100
    IN  IF x <= 1571 THEN CosQ(x)
        ELSE IF x <= 3142 THEN -CosQ(3142 - x)
        ELSE IF x <= 4712 THEN -CosQ(x - 3142)
        ELSE CosQ(6283 - x)

\* sin(a) = cos(a - pi/2)
Sin(a) == Cos(a - 157080)

\* ------------------------------------------------------------ struct Planet
Planet(w, h, orbitRadius, orbitSpeed, angle, texture) ==
    [ rect        |-> [x |-> 0, y |-> 0, w |-> w, h |-> h],
      orbitRadius |-> orbitRadius,
      orbitSpeed  |-> orbitSpeed,
      angle       |-> angle,
      texture     |-> texture,
      halfW       |-> TruncDiv(w, 2),
      halfH       |-> TruncDiv(h, 2) ]

\* Variant: the whole real-valued expression is converted to int at once.
updatePositionWhole(p, sunX, sunY) ==
    [ p EXCEPT
        !.rect.x = TruncDiv(2 * PosUnit * sunX
                              + 2 * p.orbitRadius * Cos(p.angle)
                              - PosUnit * p.rect.w, 2 * PosUnit),
        !.rect.y = TruncDiv(2 * PosUnit * sunY
                              + 2 * p.orbitRadius * Sin(p.angle)
                              - PosUnit * p.rect.h, 2 * PosUnit),
        !.angle  = p.angle + p.orbitSpeed ]

\* Variant: the angle is kept in [0, 2*pi).
updatePositionWrap(p, sunX, sunY) ==
    [ p EXCEPT
        !.rect.x = sunX + ToInt(p.orbitRadius * Cos(p.angle)) - p.halfW,
        !.rect.y = sunY + ToInt(p.orbitRadius * Sin(p.angle)) - p.halfH,
        !.angle  = (p.angle + p.orbitSpeed) % 628319 ]

\* Variant: the x result is stored in rect.w.
updatePositionClobber(p, sunX, sunY) ==
    [ p EXCEPT
        !.rect.w = sunX + ToInt(p.orbitRadius * Cos(p.angle)) - p.halfW,
        !.rect.y = sunY + ToInt(p.orbitRadius * Sin(p.angle)) - p.halfH,
        !.angle  = p.angle + p.orbitSpeed ]

updatePosition(p, sunX, sunY) ==
    [ p EXCEPT
        !.rect.x = sunX + ToInt(p.orbitRadius * Cos(p.angle)) - p.halfW,
        !.rect.y = sunY + ToInt(p.orbitRadius * Sin(p.angle)) - p.halfH,
        !.angle  = p.angle + p.orbitSpeed ]

\* Planet::render only reads the planet (SDL_RenderCopy takes the texture and
\* the rectangle as inputs).
render(p) == p

\* ------------------------------------------------------------------- state
VARIABLES
    pc,         \* position of main
    sdl,        \* rendering subsystem: "off", "on" (SDL_Init succeeded), "quit"
    window,     \* "none" (not created yet), "null", "open", "destroyed"
    renderer,   \* "none", "null", "live"
    tex,        \* texture i: "unset", "null" (load failed), "live", "destroyed"
    refs,       \* use count of the shared_ptr owning texture i
    li,         \* next texture to load (lines 87-96 in order)
    planets,    \* std::array<Planet, 8>; <<>> before line 119
    running,    \* the loop flag
    pending,    \* the event queue SDL_PollEvent reads
    idx,        \* position of the range-for over planets
    ret,        \* <<v>> once a return statement with value v is taken
    unwind,     \* shared_ptr objects still to be destroyed at scope exit
    exitCode,   \* <<status>> once the process has exited; <<>> while it runs
    cerr,       \* diagnostics written to std::cerr
    \* history of the run
    iters,      \* loop iterations started
    updates,    \* updatePosition calls per planet
    calls,      \* calls of the SDL functions named in CallNames
    loadCalls,  \* load attempts per texture
    quitSeen,   \* a quit or escape event has been polled
    posted,     \* events posted by the environment
    frameLog,   \* steps of the current loop iteration, in order
    teardown,   \* resource releases, in order
    \* a single planet under test (specification PosSpec)
    probe, probePrev, probeSun, probeN,
    \* the planets of one frame updated in arbitrary order (PermSpec)
    shadow, shadowBase, shadowDone, shadowFrames

progVars  == <<pc, sdl, window, renderer, tex, refs, li, planets, running,
               pending, idx, ret, unwind, exitCode, cerr>>
histVars  == <<iters, updates, calls, loadCalls, quitSeen, posted, frameLog,
               teardown>>
probeVars == <<probe, probePrev, probeSun, probeN>>
shadowVars == <<shadow, shadowBase, shadowDone, shadowFrames>>
vars == <<progVars, histVars, probeVars, shadowVars>>

Textures   == 1..NumTextures
PlanetIdx  == 1..NumPlanets
\* texture ids in the order of lines 87-96
TexStars   == 1
TexSun     == 2
TexMercury == 3
TexNeptune == 10
CallNames == {"SDL_Init", "SDL_RenderClear", "SDL_RenderCopy",
              "SDL_RenderPresent", "SDL_Delay"}

\* lines 104-108
sunRect == [x |-> TruncDiv(SCREEN_WIDTH - 100, 2),
            y |-> TruncDiv(SCREEN_HEIGHT - 100, 2), w |-> 100, h |-> 100]
sunXCoordinate == sunRect.x + TruncDiv(sunRect.w, 2)
sunYCoordinate == sunRect.y + TruncDiv(sunRect.h, 2)

\* lines 110-119: mercury .. neptune, copied into the array in this order.
\* Speeds are 0.02 * k radians, in units of 1/AngleUnit.
InitialPlanets ==
    << Planet(30, 30,  80 * RadUnit, 8300,  45 * AngleUnit, 3),
       Planet(40, 40, 125 * RadUnit, 3240,  90 * AngleUnit, 4),
       Planet(50, 50, 175 * RadUnit, 2000, 135 * AngleUnit, 5),
       Planet(40, 40, 225 * RadUnit, 1060, 180 * AngleUnit, 6),
       Planet(80, 80, 290 * RadUnit,  168, 225 * AngleUnit, 7),
       Planet(70, 70, 380 * RadUnit,   68, 270 * AngleUnit, 8),
       Planet(60, 60, 470 * RadUnit,   24, 315 * AngleUnit, 9),
       Planet(60, 60, 550 * RadUnit,   12,   0 * AngleUnit, 10) >>

\* SDL_Event values the environment can post.
Event(type, sym) == [type |-> type, sym |-> sym]
Events == { Event("SDL_QUIT", "none"),
            Event("SDL_KEYDOWN", "SDLK_ESCAPE"),
            Event("SDL_KEYDOWN", "SDLK_SPACE"),
            Event("SDL_KEYUP", "SDLK_ESCAPE") }

\* Variant: every key-down ends the loop (no test of the key).
HandleEventAnyKey(e, run) ==
    IF e.type = "SDL_QUIT" \/ e.type = "SDL_KEYDOWN" THEN FALSE ELSE run

\* lines 128-135: the value of running after one polled event.
HandleEvent(e, run) ==
    LET r1 == IF e.type = "SDL_QUIT" THEN FALSE ELSE run
    IN  IF e.type = "SDL_KEYDOWN"
        THEN (IF e.sym = "SDLK_ESCAPE" THEN FALSE ELSE r1)
        ELSE r1

\* Variant: the last texture is left out of the check.
AnyTextureNullSkipLast(t) ==
    \E i \in Textures \ {TexNeptune} : t[i] = "null"

\* line 98-99: the condition of the texture check.
AnyTextureNull(t) ==
    \E i \in Textures : t[i] = "null"

\* Variant: a planet orbits the rectangle of the planet before it in the
\* array instead of the sun.
UpdateAtChained(ps, i, sx, sy) ==
    [ps EXCEPT ![i] = updatePosition(ps[i],
                                     IF i > 1 THEN ps[i - 1].rect.x ELSE sx,
                                     IF i > 1 THEN ps[i - 1].rect.y ELSE sy)]

\* lines 143-146, one pass of the loop body for planets[i]
UpdateAt(ps, i, sx, sy) == [ps EXCEPT ![i] = updatePosition(ps[i], sx, sy)]
RenderAt(ps, i) == [ps EXCEPT ![i] = render(ps[i])]

\* Objects destroyed when main returns, in reverse order of declaration,
\* each named by the texture its shared_ptr owns.
RevTex(lo) == [k \in 1..(NumTextures - lo + 1) |-> NumTextures + 1 - k]
\* return at line 101: textureNeptune .. textureStars
TextureVarsUnwind == RevTex(TexStars)
\* return at line 154: planets[7] .. planets[0], neptune .. mercury, then the
\* ten texture variables
FullUnwind == RevTex(TexMercury) \o RevTex(TexMercury) \o RevTex(TexStars)

Step(op, planet) == [op |-> op, planet |-> planet]
Release(op, texture) == [op |-> op, texture |-> texture]

Bump(f, k) == [f EXCEPT ![k] = @ + 1]

NoPlanet == Planet(0, 0, 0, 0, 0, 0)

ProgInit ==
    /\ pc = "init"
    /\ sdl = "off"
    /\ window = "none"
    /\ renderer = "none"
    /\ tex = [i \in Textures |-> "unset"]
    /\ refs = [i \in Textures |-> 0]
    /\ li = 1
    /\ planets = <<>>
    /\ running = FALSE
    /\ pending = <<>>
    /\ idx = 1
    /\ ret = <<>>
    /\ unwind = <<>>
    /\ exitCode = <<>>
    /\ cerr = <<>>
    /\ iters = 0
    /\ updates = [i \in PlanetIdx |-> 0]
    /\ calls = [c \in CallNames |-> 0]
    /\ loadCalls = [i \in Textures |-> 0]
    /\ quitSeen = FALSE
    /\ posted = 0
    /\ frameLog = <<>>
    /\ teardown = <<>>

ProbeIdle ==
    /\ probe = NoPlanet
    /\ probePrev = NoPlanet
    /\ probeSun = <<0, 0>>
    /\ probeN = 0

ShadowIdle ==
    /\ shadow = <<>>
    /\ shadowBase = <<>>
    /\ shadowDone = {}
    /\ shadowFrames = 0

Init == ProgInit /\ ProbeIdle /\ ShadowIdle

\* ----------------------------------------------------------------- startup
\* lines 75-81
SDLInit ==
    /\ pc = "init"
    /\ calls' = Bump(calls, "SDL_Init")
    /\ \E ok \in BOOLEAN :
        IF ok
        THEN /\ sdl' = "on"
             /\ pc' = "createWindow"
             /\ UNCHANGED <<cerr, ret, unwind>>
        ELSE /\ cerr' = Append(cerr, "SDL could not be initialized")
             /\ ret' = <<-1>>
             /\ unwind' = <<>>
             /\ pc' = "unwind"
             /\ sdl' = sdl
    /\ UNCHANGED <<window, renderer, tex, refs, li, planets, running, pending,
                   idx, exitCode>>
    /\ UNCHANGED <<iters, updates, loadCalls, quitSeen, posted, frameLog,
                   teardown>>
    /\ UNCHANGED <<probeVars, shadowVars>>

\* lines 83-84: SDL_CreateWindow returns a window or NULL; not checked.
CreateWindow ==
    /\ pc = "createWindow"
    /\ window' \in {"open", "null"}
    /\ pc' = "createRenderer"
    /\ UNCHANGED <<sdl, renderer, tex, refs, li, planets, running, pending,
                   idx, ret, unwind, exitCode, cerr>>
    /\ UNCHANGED <<histVars, probeVars, shadowVars>>

\* line 85: SDL_CreateRenderer returns NULL for a NULL window; not checked.
CreateRenderer ==
    /\ pc = "createRenderer"
    /\ renderer' \in (IF window = "open" THEN {"live", "null"} ELSE {"null"})
    /\ pc' = "load"
    /\ UNCHANGED <<sdl, window, tex, refs, li, planets, running, pending,
                   idx, ret, unwind, exitCode, cerr>>
    /\ UNCHANGED <<histVars, probeVars, shadowVars>>

\* lines 87-96, one line per step: the texture is created, or the result is
\* NULL (file missing, conversion failed, or no renderer); either way a
\* shared_ptr with use count 1 holds the result.
LoadTexture ==
    /\ pc = "load"
    /\ \E ok \in (IF renderer = "live" THEN BOOLEAN ELSE {FALSE}) :
        tex' = [tex EXCEPT ![li] = IF ok THEN "live" ELSE "null"]
    /\ refs' = [refs EXCEPT ![li] = 1]
    /\ loadCalls' = Bump(loadCalls, li)
    /\ IF li = NumTextures
       THEN pc' = "checkTextures" /\ li' = li
       ELSE pc' = pc /\ li' = li + 1
    /\ UNCHANGED <<sdl, window, renderer, planets, running, pending, idx, ret,
                   unwind, exitCode, cerr>>
    /\ UNCHANGED <<iters, updates, calls, quitSeen, posted, frameLog,
                   teardown>>
    /\ UNCHANGED <<probeVars, shadowVars>>

\* lines 98-102
CheckTextures ==
    /\ pc = "checkTextures"
    /\ IF AnyTextureNull(tex)
       THEN /\ cerr' = Append(cerr, "Failed to create texture")
            /\ ret' = <<-1>>
            /\ unwind' = TextureVarsUnwind
            /\ pc' = "unwind"
       ELSE /\ pc' = "construct"
            /\ UNCHANGED <<cerr, ret, unwind>>
    /\ UNCHANGED <<sdl, window, renderer, tex, refs, li, planets, running,
                   pending, idx, exitCode>>
    /\ UNCHANGED <<histVars, probeVars, shadowVars>>

\* lines 104-123: each named planet and each array element holds a copy of
\* its texture's shared_ptr.
ConstructPlanets ==
    /\ pc = "construct"
    /\ planets' = InitialPlanets
    /\ refs' = [i \in Textures |-> IF i >= TexMercury THEN 3 ELSE 1]
    /\ running' = TRUE
    /\ pc' = "loopHead"
    /\ UNCHANGED <<sdl, window, renderer, tex, li, pending, idx, ret, unwind,
                   exitCode, cerr>>
    /\ UNCHANGED <<histVars, probeVars, shadowVars>>

\* ---------------------------------------------------------------- main loop
InLoop == pc \in {"loopHead", "poll", "clear", "background", "sun", "update",
                  "render", "present", "delay"}

\* The environment queues an input event for the window.  Events queued
\* before the loop starts are read by nothing until the first poll, so they
\* are posted from the point where startup has succeeded.
PostEvent ==
    /\ InLoop \/ pc = "construct"
    /\ posted < MaxEvents
    /\ \E e \in Events : pending' = Append(pending, e)
    /\ posted' = posted + 1
    /\ UNCHANGED <<pc, sdl, window, renderer, tex, refs, li, planets, running,
                   idx, ret, unwind, exitCode, cerr>>
    /\ UNCHANGED <<iters, updates, calls, loadCalls, quitSeen, frameLog,
                   teardown>>
    /\ UNCHANGED <<probeVars, shadowVars>>

\* line 124: the loop condition
LoopHead ==
    /\ pc = "loopHead"
    /\ IF running
       THEN /\ iters < MaxFrames
            /\ iters' = iters + 1
            /\ frameLog' = <<>>
            /\ pc' = "poll"
       ELSE /\ pc' = "destroyWindow"
            /\ UNCHANGED <<iters, frameLog>>
    /\ UNCHANGED <<sdl, window, renderer, tex, refs, li, planets, running,
                   pending, idx, ret, unwind, exitCode, cerr>>
    /\ UNCHANGED <<updates, calls, loadCalls, quitSeen, posted, teardown>>
    /\ UNCHANGED <<probeVars, shadowVars>>

\* Variant: a quit or escape event leaves the loop at once.
PollEventBreak ==
    /\ pc = "poll"
    /\ IF pending = <<>>
       THEN /\ pc' = "clear"
            /\ frameLog' = Append(frameLog, Step("drained", 0))
            /\ UNCHANGED <<pending, running, quitSeen>>
       ELSE /\ pending' = Tail(pending)
            /\ running' = HandleEvent(Head(pending), running)
            /\ quitSeen' = (quitSeen \/ ~running')
            /\ pc' = IF running' THEN pc ELSE "destroyWindow"
            /\ UNCHANGED frameLog
    /\ UNCHANGED <<sdl, window, renderer, tex, refs, li, planets, idx, ret,
                   unwind, exitCode, cerr>>
    /\ UNCHANGED <<iters, updates, calls, loadCalls, posted, teardown>>
    /\ UNCHANGED <<probeVars, shadowVars>>

\* lines 127-136: one SDL_PollEvent call and, if it returned an event, the
\* body of the inner loop.
PollEvent ==
    /\ pc = "poll"
    /\ IF pending = <<>>
       THEN /\ pc' = "clear"
            /\ frameLog' = Append(frameLog, Step("drained", 0))
            /\ UNCHANGED <<pending, running, quitSeen>>
       ELSE /\ pending' = Tail(pending)
            /\ running' = HandleEvent(Head(pending), running)
            /\ quitSeen' = (quitSeen
                              \/ Head(pending) = Event("SDL_QUIT", "none")
                              \/ Head(pending) = Event("SDL_KEYDOWN", "SDLK_ESCAPE"))
            /\ UNCHANGED <<pc, frameLog>>
    /\ UNCHANGED <<sdl, window, renderer, tex, refs, li, planets, idx, ret,
                   unwind, exitCode, cerr>>
    /\ UNCHANGED <<iters, updates, calls, loadCalls, posted, teardown>>
    /\ UNCHANGED <<probeVars, shadowVars>>

\* A drawing call of the loop: at position `at`, logs `op`, counts a call of
\* `fn` and moves to `to`.
Draw(at, op, fn, to) ==
    /\ pc = at
    /\ frameLog' = Append(frameLog, Step(op, 0))
    /\ calls' = Bump(calls, fn)
    /\ pc' = to
    /\ UNCHANGED <<sdl, window, renderer, tex, refs, li, planets, running,
                   pending, idx, ret, unwind, exitCode, cerr>>
    /\ UNCHANGED <<iters, updates, loadCalls, quitSeen, posted, teardown>>
    /\ UNCHANGED <<probeVars, shadowVars>>

\* line 138
RenderClear == Draw("clear", "clear", "SDL_RenderClear", "background")
\* Variant: line 140 draws the sun's texture and rectangle.
DrawBackgroundAsSun == Draw("background", "sun", "SDL_RenderCopy", "sun")
\* line 140
DrawBackground == Draw("background", "background", "SDL_RenderCopy", "sun")
\* line 141
DrawSun == Draw("sun", "sun", "SDL_RenderCopy", "update")

\* line 144
UpdatePlanet ==
    /\ pc = "update"
    /\ planets' = UpdateAt(planets, idx, sunXCoordinate, sunYCoordinate)
    /\ updates' = Bump(updates, idx)
    /\ frameLog' = Append(frameLog, Step("update", idx))
    /\ pc' = "render"
    /\ UNCHANGED <<sdl, window, renderer, tex, refs, li, running, pending,
                   idx, ret, unwind, exitCode, cerr>>
    /\ UNCHANGED <<iters, calls, loadCalls, quitSeen, posted, teardown>>
    /\ UNCHANGED <<probeVars, shadowVars>>

\* line 145, and the advance of the range-for (line 143)
RenderPlanet ==
    /\ pc = "render"
    /\ planets' = RenderAt(planets, idx)
    /\ calls' = Bump(calls, "SDL_RenderCopy")
    /\ frameLog' = Append(frameLog, Step("render", idx))
    /\ IF idx = NumPlanets
       THEN pc' = "present" /\ idx' = 1
       ELSE pc' = "update" /\ idx' = idx + 1
    /\ UNCHANGED <<sdl, window, renderer, tex, refs, li, running, pending,
                   ret, unwind, exitCode, cerr>>
    /\ UNCHANGED <<iters, updates, loadCalls, quitSeen, posted, teardown>>
    /\ UNCHANGED <<probeVars, shadowVars>>

\* line 148
RenderPresent == Draw("present", "present", "SDL_RenderPresent", "delay")
\* line 149
Delay == Draw("delay", "delay", "SDL_Delay", "loopHead")

\* ---------------------------------------------------------------- teardown
\* line 152
DestroyWindow ==
    /\ pc = "destroyWindow"
    /\ window' = IF window = "open" THEN "destroyed" ELSE window
    /\ teardown' = Append(teardown, Release("SDL_DestroyWindow", 0))
    /\ pc' = "quit"
    /\ UNCHANGED <<sdl, renderer, tex, refs, li, planets, running, pending,
                   idx, ret, unwind, exitCode, cerr>>
    /\ UNCHANGED <<iters, updates, calls, loadCalls, quitSeen, posted,
                   frameLog>>
    /\ UNCHANGED <<probeVars, shadowVars>>

\* line 153
SDLQuit ==
    /\ pc = "quit"
    /\ sdl' = "quit"
    /\ teardown' = Append(teardown, Release("SDL_Quit", 0))
    /\ pc' = "return"
    /\ UNCHANGED <<window, renderer, tex, refs, li, planets, running, pending,
                   idx, ret, unwind, exitCode, cerr>>
    /\ UNCHANGED <<iters, updates, calls, loadCalls, quitSeen, posted,
                   frameLog>>
    /\ UNCHANGED <<probeVars, shadowVars>>

\* line 154: the return statement; the locals of main are destroyed next.
ReturnZero ==
    /\ pc = "return"
    /\ ret' = <<0>>
    /\ unwind' = FullUnwind
    /\ pc' = "unwind"
    /\ UNCHANGED <<sdl, window, renderer, tex, refs, li, planets, running,
                   pending, idx, exitCode, cerr>>
    /\ UNCHANGED <<histVars, probeVars, shadowVars>>

\* Destruction of one shared_ptr at scope exit (lines 77, 101, 155): the use
\* count drops, and the holder of the last reference calls the deleter,
\* SDL_DestroyTexture (lines 87-96).  A NULL texture has nothing to destroy.
ReleaseRef ==
    /\ pc = "unwind"
    /\ unwind # <<>>
    /\ LET t == Head(unwind) IN
        /\ refs' = [refs EXCEPT ![t] = @ - 1]
        /\ IF refs[t] = 1 /\ tex[t] = "live"
           THEN /\ tex' = [tex EXCEPT ![t] = "destroyed"]
                /\ teardown' = Append(teardown, Release("SDL_DestroyTexture", t))
           ELSE UNCHANGED <<tex, teardown>>
    /\ unwind' = Tail(unwind)
    /\ UNCHANGED <<pc, sdl, window, renderer, li, planets, running, pending,
                   idx, ret, exitCode, cerr>>
    /\ UNCHANGED <<iters, updates, calls, loadCalls, quitSeen, posted,
                   frameLog>>
    /\ UNCHANGED <<probeVars, shadowVars>>

\* main has returned: the process ends with the low 8 bits of the value.
Exit ==
    /\ pc = "unwind"
    /\ unwind = <<>>
    /\ exitCode' = <<ret[1] % 256>>
    /\ pc' = "exited"
    /\ UNCHANGED <<sdl, window, renderer, tex, refs, li, planets, running,
                   pending, idx, ret, unwind, cerr>>
    /\ UNCHANGED <<histVars, probeVars, shadowVars>>

\* --------------------------------------------------------- the program
ProgramStep ==
    \/ SDLInit
    \/ CreateWindow
    \/ CreateRenderer
    \/ LoadTexture
    \/ CheckTextures
    \/ ConstructPlanets
    \/ LoopHead
    \/ PollEvent
    \/ RenderClear
    \/ DrawBackground
    \/ DrawSun
    \/ UpdatePlanet
    \/ RenderPlanet
    \/ RenderPresent
    \/ Delay
    \/ DestroyWindow
    \/ SDLQuit
    \/ ReturnZero
    \/ ReleaseRef
    \/ Exit

Next == ProgramStep \/ PostEvent

Spec == Init /\ [][Next]_vars

\* The program is a single thread that always takes its next step.
FairSpec == Spec /\ WF_vars(ProgramStep)

\* ------------------------------------------- updatePosition on any planet
\* Inputs of the probe: sprite sizes (even and odd), radii (whole and
\* fractional), speeds, angles in all four quadrants and beyond 2*pi, centers.
ProbeSizes   == {1, 30, 31, 50}
ProbeRadii   == {0, 805, 1750, 5500}
ProbeSpeeds  == {2000, 8300}
ProbeAngles  == {0, 78540, 235619, 392699, 4500000, 13500000}
ProbeCenters == {<<960, 540>>, <<0, 0>>, <<-5, 7>>}

PosInit ==
    /\ ProgInit
    /\ ShadowIdle
    /\ \E w \in ProbeSizes, h \in ProbeSizes, r \in ProbeRadii,
          s \in ProbeSpeeds, a \in ProbeAngles :
            probe = Planet(w, h, r, s, a, TexMercury)
    /\ probePrev = probe
    /\ probeSun \in ProbeCenters
    /\ probeN = 0

ProbeUpdate ==
    /\ probeN < MaxProbe
    /\ probePrev' = probe
    /\ probe' = updatePosition(probe, probeSun[1], probeSun[2])
    /\ probeN' = probeN + 1
    /\ UNCHANGED <<probeSun, progVars, histVars, shadowVars>>

PosNext == ProbeUpdate

PosSpec == PosInit /\ [][PosNext]_vars

\* ------------------------------------ one frame's updates in any order
\* lines 143-146: the whole range-for, in array order, from planet i on
RECURSIVE FrameFrom(_, _, _, _)
FrameFrom(ps, i, sx, sy) ==
    IF i > Len(ps) THEN ps
    ELSE FrameFrom(RenderAt(UpdateAt(ps, i, sx, sy), i), i + 1, sx, sy)

FrameUpdate(ps) == FrameFrom(ps, 1, sunXCoordinate, sunYCoordinate)

PermInit ==
    /\ ProgInit
    /\ ProbeIdle
    /\ shadow = InitialPlanets
    /\ shadowBase = InitialPlanets
    /\ shadowDone = {}
    /\ shadowFrames = 0

\* The loop body applied to a planet not yet updated in this frame.
ShadowUpdate ==
    /\ \E i \in PlanetIdx \ shadowDone :
        /\ shadow' = RenderAt(UpdateAt(shadow, i, sunXCoordinate, sunYCoordinate), i)
        /\ shadowDone' = shadowDone \cup {i}
    /\ UNCHANGED <<shadowBase, shadowFrames, progVars, histVars, probeVars>>

ShadowNextFrame ==
    /\ shadowDone = PlanetIdx
    /\ shadowFrames < MaxFrames
    /\ shadowBase' = shadow
    /\ shadowDone' = {}
    /\ shadowFrames' = shadowFrames + 1
    /\ UNCHANGED <<shadow, progVars, histVars, probeVars>>

PermNext == ShadowUpdate \/ ShadowNextFrame

PermSpec == PermInit /\ [][PermNext]_vars

\* ==================================================================
\* Properties
\* ==================================================================
Exited == pc = "exited"
CleanExit == pc = "exited" /\ exitCode = <<0>>
ErrorExit == pc = "exited" /\ exitCode # <<0>>
\* main has left the loop through its condition (line 124 false)
AfterLoop == \/ pc \in {"destroyWindow", "quit", "return"}
             \/ (pc \in {"unwind", "exited"} /\ ret = <<0>>)
FailedTextures == {i \in Textures : tex[i] = "null"}
\* a step in which SDL_PollEvent hands the head of the queue to the loop body
Polled == pc = "poll" /\ pending # <<>> /\ pending' = Tail(pending)
QuitEvents == { Event("SDL_QUIT", "none"), Event("SDL_KEYDOWN", "SDLK_ESCAPE") }
NoFrameWork ==
    /\ iters = 0
    /\ calls["SDL_RenderClear"] = 0
    /\ calls["SDL_RenderCopy"] = 0
    /\ calls["SDL_RenderPresent"] = 0
    /\ \A i \in PlanetIdx : updates[i] = 0

\* C1: when one of the ten assets fails to load, the process exits with a
\* nonzero status, the loop was never entered (nothing cleared, drawn,
\* presented or updated) and no window is open at the moment of exit.
C1_MissingAssetExit ==
    (Exited /\ FailedTextures # {}) =>
        /\ exitCode # <<0>>
        /\ NoFrameWork
        /\ window # "open"

\* C2: a polled quit event or escape key-down always leads to the loop
\* ending and the process exiting with status 0; every other event leaves
\* the running flag as it was; the loop ends only after quit or escape.
C2_QuitEscapeEndLoop ==
    /\ [](quitSeen => <>CleanExit)
    /\ [][ (Polled /\ Head(pending) \notin QuitEvents)
             => (running' = running) ]_vars
    /\ [][ (Polled /\ Head(pending) \in QuitEvents)
             => (running' = FALSE /\ quitSeen') ]_vars
    /\ [](AfterLoop => quitSeen)

C2_Witness == CleanExit /\ quitSeen /\ posted >= 2 /\ pending = <<>>

\* The quantities of one probed update: the real-valued radial offsets, in
\* units of 1/PosUnit pixel, at the angle before the update.
ProbeOffX == probePrev.orbitRadius * Cos(probePrev.angle)
ProbeOffY == probePrev.orbitRadius * Sin(probePrev.angle)

\* C3 (as claimed): rect.x is (cx + r*cos(theta) - w/2) rounded toward zero
\* as one real-valued expression, and likewise rect.y; theta is the angle
\* before the advance.  Both sides are scaled by 2*PosUnit, so that w/2 is
\* exact.
C3_TruncWhole ==
    probeN > 0 =>
        /\ probe.rect.x = TruncDiv(2 * PosUnit * probeSun[1] + 2 * ProbeOffX
                                     - PosUnit * probe.rect.w, 2 * PosUnit)
        /\ probe.rect.y = TruncDiv(2 * PosUnit * probeSun[2] + 2 * ProbeOffY
                                     - PosUnit * probe.rect.h, 2 * PosUnit)

\* d is v/u rounded toward zero
IsTrunc(d, v, u) ==
    IF v >= 0 THEN d * u <= v /\ v < (d + 1) * u
              ELSE d * u >= v /\ v > (d - 1) * u

\* C3 (amended): rect.x is cx plus (r*cos(theta) rounded toward zero) minus
\* (w/2 rounded toward zero), each part rounded on its own, and likewise
\* rect.y; theta is the angle before the advance.
C3_TruncParts ==
    probeN > 0 =>
        /\ IsTrunc(probe.halfW, probe.rect.w, 2)
        /\ IsTrunc(probe.halfH, probe.rect.h, 2)
        /\ IsTrunc(probe.rect.x - probeSun[1] + probe.halfW, ProbeOffX, PosUnit)
        /\ IsTrunc(probe.rect.y - probeSun[2] + probe.halfH, ProbeOffY, PosUnit)

\* an update of an odd-sized sprite at a negative, fractional offset
C3_Witness ==
    /\ probeN > 0
    /\ probe.rect.w = 31
    /\ ProbeOffX < 0
    /\ ProbeOffX % PosUnit # 0

\* C4: after N loop iterations every planet's angle is its initial angle
\* plus N times its speed (no clamping, no wraparound at 2*pi), and at any
\* point it is the initial angle plus speed times the updates made so far.
C4_AngleLinear ==
    planets # <<>> =>
        \A i \in PlanetIdx :
            /\ planets[i].angle = InitialPlanets[i].angle
                                    + updates[i] * InitialPlanets[i].orbitSpeed
            /\ pc = "loopHead" => updates[i] = iters

C4_Witness == pc = "loopHead" /\ iters = 2 /\ planets[3].angle = 13504000

\* The fields of a planet that are set at construction.
Fixed(p) == <<p.orbitRadius, p.orbitSpeed, p.texture, p.rect.w, p.rect.h,
              p.halfW, p.halfH>>

\* C5: from construction on, every planet keeps its radius, speed, sprite,
\* size and half-size, and the array keeps its length and order; an update
\* changes only the angle and rect.x, rect.y of the planet updated; render
\* and every other step change no planet.
C5_StructureFixed ==
    /\ [](planets # <<>> =>
            /\ Len(planets) = NumPlanets
            /\ \A i \in PlanetIdx : Fixed(planets[i]) = Fixed(InitialPlanets[i]))
    /\ [][ planets # <<>> =>
            /\ pc # "update" => planets' = planets
            /\ pc = "update" =>
                 \A j \in PlanetIdx : j # idx => planets'[j] = planets[j] ]_vars

C5_Witness ==
    /\ pc = "present"
    /\ iters = 2
    /\ \A i \in PlanetIdx : planets[i].angle # InitialPlanets[i].angle
    /\ planets[3].rect.x # 0

\* C6: the exit status is nonzero exactly when SDL_Init failed or a texture
\* is missing, always before the loop and with no second attempt; after a
\* failed SDL_Init no window exists and no asset was loaded; once the loop
\* has been entered the only exit status is 0.
C6_ErrorExits ==
    /\ Exited => ((exitCode # <<0>>) <=> (sdl = "off" \/ FailedTextures # {}))
    /\ (ret = <<-1>>) => (NoFrameWork /\ planets = <<>> /\ ~running)
    /\ calls["SDL_Init"] <= 1
    /\ \A i \in Textures : loadCalls[i] <= 1
    /\ (sdl = "off" /\ pc # "init") =>
          /\ window = "none"
          /\ \A i \in Textures : tex[i] = "unset" /\ loadCalls[i] = 0
    /\ iters > 0 => (ret # <<-1>> /\ exitCode \in {<<>>, <<0>>} /\ cerr = <<>>)

C6_Witness ==
    /\ ErrorExit
    /\ exitCode = <<255>>
    /\ Cardinality(FailedTextures) = 1
    /\ cerr = <<"Failed to create texture">>

\* The steps of one iteration, in the order of lines 127-149.
PlanetSteps(i) == << Step("update", i), Step("render", i) >>
FrameOrder ==
    << Step("drained", 0), Step("clear", 0), Step("background", 0),
       Step("sun", 0) >>
    \o PlanetSteps(1) \o PlanetSteps(2) \o PlanetSteps(3) \o PlanetSteps(4)
    \o PlanetSteps(5) \o PlanetSteps(6) \o PlanetSteps(7) \o PlanetSteps(8)
    \o << Step("present", 0), Step("delay", 0) >>

IsPrefix(a, b) == Len(a) <= Len(b) /\ a = SubSeq(b, 1, Len(a))

\* C7: every iteration drains the events, clears, draws the background,
\* draws the sun, then updates and draws each planet in array order, then
\* presents, then delays; so the steps made so far in an iteration are
\* always an initial part of that order, and a completed iteration has
\* made all of them.
C7_FrameOrder ==
    /\ IsPrefix(frameLog, FrameOrder)
    /\ (pc = "loopHead" /\ iters > 0) => frameLog = FrameOrder
    /\ pc = "delay" => Len(frameLog) = Len(FrameOrder) - 1

C7_Witness == pc = "loopHead" /\ iters = 2 /\ frameLog = FrameOrder

\* C8: updating the planets of a frame in any order gives each planet the
\* angle and position that the array-order pass gives it.
C8_OrderIndependent ==
    shadow # <<>> =>
        \A i \in PlanetIdx :
            shadow[i] = IF i \in shadowDone THEN FrameUpdate(shadowBase)[i]
                                            ELSE shadowBase[i]

\* a later frame completed by updates taken in some order
C8_Witness ==
    /\ shadowDone = PlanetIdx
    /\ shadowFrames >= 1
    /\ shadow = FrameUpdate(shadowBase)
    /\ shadow # shadowBase

\* C9: a quit or escape event acts only at the next loop condition: the
\* poll loop goes on until the queue is empty, and when the loop has ended
\* every started iteration has cleared, updated and drawn all planets,
\* presented and delayed; at least one iteration has run.
C9_QuitAtLoopCheck ==
    /\ [][ Polled => (pc' = "poll" /\ planets' = planets) ]_vars
    /\ [][ (pc = "poll" /\ pc' # "poll") => (pending = <<>> /\ pc' = "clear") ]_vars
    /\ [](AfterLoop =>
            /\ iters >= 1
            /\ \A i \in PlanetIdx : updates[i] = iters
            /\ calls["SDL_RenderClear"] = iters
            /\ calls["SDL_RenderCopy"] = (2 + NumPlanets) * iters
            /\ calls["SDL_RenderPresent"] = iters
            /\ calls["SDL_Delay"] = iters
            /\ frameLog = FrameOrder)

\* quit was polled in the first iteration, and the frame was still made
C9_Witness ==
    /\ CleanExit
    /\ iters = 1
    /\ calls["SDL_RenderPresent"] = 1
    /\ \A i \in PlanetIdx : updates[i] = 1

\* Positions of the releases in the teardown log.
TexturesDestroyed(t) ==
    {k \in 1..Len(teardown) :
        teardown[k] = Release("SDL_DestroyTexture", t)}

\* C10: on a clean exit every texture is destroyed exactly once, and no
\* texture is destroyed after SDL_DestroyWindow or SDL_Quit has run.
C10_TexturesBeforeWindow ==
    /\ CleanExit => \A t \in Textures : Cardinality(TexturesDestroyed(t)) = 1
    /\ \A j \in 1..Len(teardown), k \in 1..Len(teardown) :
          (j < k /\ teardown[j].op \in {"SDL_DestroyWindow", "SDL_Quit"})
              => teardown[k].op # "SDL_DestroyTexture"

====
